---------------------------- MODULE Spec2Model ----------------------------
(***************************************************************************)
(* A model of main.py: a FastAPI process with two process-wide client      *)
(* handles (redis_client, qdrant_client) initialised at import time, and   *)
(* four routes: /health, /cache-example, /vector-example and /predict.     *)
(* The cache server, the vector store and the inference server are the     *)
(* environment: every round trip to one of them takes its outcome from a   *)
(* small set (answered, refused, timed out, error status).                 *)
(***************************************************************************)
EXTENDS Integers, Sequences, FiniteSets, TLC

\* ------------------------------------------------------------------ bounds

\* Handler threads serving /cache-example at the same time.
MaxWorkers == 2
\* random.randint(1, 100) is narrowed to 1..MaxRand.
MaxRand == 2
\* random.randint(1, 1000) is narrowed to 1..MaxId.
MaxId == 2
\* random.random() is narrowed to the grid k / (MaxCoord + 1), k in 1..MaxCoord.
MaxCoord == 2
\* A /predict payload holds at most MaxRows rows.
MaxRows == 2
\* Row lengths tried: 0 and FeatureCount - LenSlack .. FeatureCount + LenSlack.
LenSlack == 1
\* Feature values tried: 0..MaxVal (tenths).
MaxVal == 1

\* ------------------------------------------------------- program constants

FeatureCount == 10
ColumnCount == 10
CacheTtl == 10
VectorSize == 4
SearchLimit == 1

VARIABLES
    boot,           \* position of the import-time initialisation (lines 33-55)
    redis_client,   \* "unset" | "present" | "absent" (None)
    qdrant_client,  \* "unset" | "present" | "absent" (None)
    bootLog,        \* outcome of each dependency's first round trip in this start
    atBoot,         \* my_collection as this start's bootstrap found it
    jsonErrorBase,  \* base class of what response.json() raises in this build
    store,          \* the cache server's entry for "my_key"
    lastReturned,   \* value of the latest completed /cache-example call, None after an expiry
    collection,     \* my_collection in the vector store
    peer,           \* another instance's position in its own bootstrap
    healthResp,     \* the latest /health exchange
    cacheReq,       \* per worker: the /cache-example request it is handling
    vecReq,         \* the /vector-example request being handled
    predReq         \* the /predict request being handled

vars == <<boot, redis_client, qdrant_client, bootLog, atBoot, jsonErrorBase, store,
          lastReturned, collection, peer, healthResp, cacheReq, vecReq, predReq>>

startupVars == <<boot, redis_client, qdrant_client, bootLog, atBoot>>

\* ------------------------------------------------------------- the stores

Ids == 1..MaxId
Vectors == [1..VectorSize -> 1..MaxCoord]
NoVec == <<>>
NoCollection == [exists |-> FALSE, points |-> [i \in Ids |-> NoVec]]
EmptyCollection == [exists |-> TRUE, points |-> [i \in Ids |-> NoVec]]
\* redis_client.get of a missing key returns None.
None == "None"
NoEntry == [val |-> None, ttl |-> 0]

\* --------------------------------------------------- exception hierarchies

\* What a Redis command raises for each outcome of its round trip.
RedisOutcomes == {"ok", "refused", "timeout", "error_reply"}

RedisException(out) ==
    CASE out = "ok" -> "none"
      [] out = "refused" -> "redis.ConnectionError"
      [] out = "timeout" -> "redis.TimeoutError"
      [] out = "error_reply" -> "redis.ResponseError"

\* except RedisConnectionError: TimeoutError and ResponseError derive from
\* RedisError, not from ConnectionError.
CaughtAsRedisConnectionError(exc) == exc = "redis.ConnectionError"

\* What a QdrantClient call raises for each outcome of its round trip.
QdrantOutcomes == {"ok", "unreachable", "error_status"}

QdrantException(out) ==
    CASE out = "ok" -> "none"
      [] out = "unreachable" -> "ResponseHandlingException"
      [] out = "error_status" -> "UnexpectedResponse"

\* ---------------------------------------------------------------- startup

NoHealth == [http |-> 0, fault |-> "none", status |-> "none", redis |-> "none",
             qdrant |-> "none", ping |-> "none", rc |-> "unset", qc |-> "unset",
             cacheOps |-> 0]

IdleCache == [pc |-> "idle", obs |-> None, newVal |-> None, http |-> 0, fault |-> "none",
              source |-> "none", value |-> None, cacheOps |-> 0, failed |-> "none",
              rc |-> "unset"]

IdleVec == [pc |-> "idle", id |-> 0, vec |-> NoVec, http |-> 0, fault |-> "none",
            found |-> <<>>, ops |-> 0]

NoRemote == [net |-> "none", status |-> 0, text |-> "none"]

IdlePred == [pc |-> "idle", payload |-> <<>>, remote |-> NoRemote, outbound |-> <<>>,
             http |-> 0, fault |-> "none", detail |-> <<>>, body |-> <<>>]

NoBootLog == [redis |-> "none", qdrant |-> "none"]

Init ==
    /\ boot = "redis"
    /\ redis_client = "unset"
    /\ qdrant_client = "unset"
    /\ bootLog = NoBootLog
    /\ atBoot = NoCollection
    /\ jsonErrorBase \in {"RequestException", "ValueError"}
    /\ store = NoEntry
    /\ lastReturned = None
    /\ collection = NoCollection
    /\ peer = "idle"
    /\ healthResp = NoHealth
    /\ cacheReq = [w \in 1..MaxWorkers |-> IdleCache]
    /\ vecReq = IdleVec
    /\ predReq = IdlePred

\* Lines 33-39: Redis(...), ping(); only RedisConnectionError is caught.  Any
\* other exception leaves the module body, and the process does not start.
StartRedis ==
    /\ boot = "redis"
    /\ \E out \in RedisOutcomes :
         LET exc == RedisException(out) IN
         /\ bootLog' = [bootLog EXCEPT !.redis = out]
         /\ IF exc = "none"
              THEN redis_client' = "present" /\ boot' = "qdrant_delete"
              ELSE IF CaughtAsRedisConnectionError(exc)
                     THEN redis_client' = "absent" /\ boot' = "qdrant_delete"
                     ELSE redis_client' = "unset" /\ boot' = "aborted"
    /\ UNCHANGED <<qdrant_client, atBoot, jsonErrorBase, store, lastReturned,
                   collection, peer, healthResp, cacheReq, vecReq, predReq>>

\* recreate_collection is delete_collection followed by create_collection.
DeleteCollection(c) == NoCollection

CreateCollection(c) == EmptyCollection

\* Lines 41-48, first half of recreate_collection: the collection is dropped.
\* UnexpectedResponse is swallowed by the inner except (line 50), anything
\* else by the outer one (line 53), which disables the handle.
StartQdrantDelete ==
    /\ boot = "qdrant_delete"
    /\ \E out \in QdrantOutcomes :
         LET exc == QdrantException(out) IN
         /\ bootLog' = [bootLog EXCEPT !.qdrant = out]
         /\ CASE exc = "none" ->
                   /\ collection' = DeleteCollection(collection)
                   /\ atBoot' = collection
                   /\ boot' = "qdrant_create"
                   /\ UNCHANGED qdrant_client
              [] exc = "UnexpectedResponse" ->
                   /\ qdrant_client' = "present"
                   /\ boot' = "serving"
                   /\ UNCHANGED <<collection, atBoot>>
              [] OTHER ->
                   /\ qdrant_client' = "absent"
                   /\ boot' = "serving"
                   /\ UNCHANGED <<collection, atBoot>>
    /\ UNCHANGED <<redis_client, jsonErrorBase, store, lastReturned, peer,
                   healthResp, cacheReq, vecReq, predReq>>

\* Lines 41-55, second half of recreate_collection: the collection is created
\* empty; if another instance created it meanwhile the store answers 409,
\* which is an UnexpectedResponse.
StartQdrantCreate ==
    /\ boot = "qdrant_create"
    /\ \E out \in QdrantOutcomes :
         LET exc == IF out = "ok" /\ collection.exists
                      THEN "UnexpectedResponse"
                      ELSE QdrantException(out) IN
         /\ bootLog' = [bootLog EXCEPT !.qdrant = out]
         /\ atBoot' = NoCollection
         /\ CASE exc = "none" ->
                   /\ collection' = CreateCollection(collection)
                   /\ qdrant_client' = "present"
              [] exc = "UnexpectedResponse" ->
                   /\ qdrant_client' = "present"
                   /\ UNCHANGED collection
              [] OTHER ->
                   /\ qdrant_client' = "absent"
                   /\ UNCHANGED collection
    /\ boot' = "serving"
    /\ UNCHANGED <<redis_client, jsonErrorBase, store, lastReturned, peer,
                   healthResp, cacheReq, vecReq, predReq>>

\* The process is started again (after a crash, a deploy or an aborted start):
\* the module body runs from the top; requests in flight are lost, the cache
\* server and the vector store keep what they hold.
Restart ==
    /\ boot \in {"serving", "aborted"}
    /\ boot' = "redis"
    /\ redis_client' = "unset"
    /\ qdrant_client' = "unset"
    /\ bootLog' = NoBootLog
    /\ atBoot' = NoCollection
    /\ healthResp' = NoHealth
    /\ cacheReq' = [w \in 1..MaxWorkers |-> IdleCache]
    /\ vecReq' = IdleVec
    /\ predReq' = IdlePred
    /\ UNCHANGED <<jsonErrorBase, store, lastReturned, collection, peer>>

Startup == StartRedis \/ StartQdrantDelete \/ StartQdrantCreate

\* --------------------------------------------------------------- /predict

InferenceTimeout == 5

RowLens == {0} \cup ((FeatureCount - LenSlack)..(FeatureCount + LenSlack))

\* A row of JSON numbers: len values, rotating through 0..MaxVal from a.
Row(len, a) == [i \in 1..len |-> (a + i) % (MaxVal + 1)]

Rows == {Row(len, a) : len \in RowLens, a \in 0..MaxVal}

Payloads == UNION {[1..n -> Rows] : n \in 0..MaxRows}

\* What the inference server does with the one call: the transport fails, or
\* it answers with a status and a body text.
NetFailures == {"refused", "timeout", "dns"}
RemoteStatuses == {200, 400, 404, 500, 503}
RemoteTexts == {"{\"predictions\": [0]}", "{\"predictions\": [1]}", "<html>oops"}

Remotes ==
    {[net |-> n, status |-> 0, text |-> "none"] : n \in NetFailures}
      \cup {[net |-> "answered", status |-> s, text |-> t] :
              s \in RemoteStatuses, t \in RemoteTexts}

\* response.json(): the decoded document (a key and its list), or a failure.
JsonDecode(text) ==
    CASE text = "{\"predictions\": [0]}" -> [ok |-> TRUE, doc |-> <<"predictions", <<0>>>>]
      [] text = "{\"predictions\": [1]}" -> [ok |-> TRUE, doc |-> <<"predictions", <<1>>>>]
      [] OTHER -> [ok |-> FALSE, doc |-> <<>>]

\* The validator with the comparison turned into "too long" only.
check_features_count_too_long_only(v) == Len(v) > FeatureCount

\* Lines 25-30: the validator of one item of data.
check_features_count(v) == Len(v) # FeatureCount

\* PredictionRequest(**body): the validator runs on each item; one failure
\* fails the model, and FastAPI answers 422 without calling the handler.
ValidationFails(payload) == \E i \in 1..Len(payload) : check_features_count(payload[i])

\* The comprehension counting from 1 instead of 0.
columns_from_one == [i \in 1..ColumnCount |-> "feature_" \o ToString(i)]

\* Line 110.
columns == [i \in 1..ColumnCount |-> "feature_" \o ToString(i - 1)]

\* Lines 111-116.
mlflow_input(data) == [dataframe_split |-> [columns |-> columns, data |-> data]]

\* requests.post: what it raises for each transport failure.
PostException(remote) ==
    CASE remote.net \in {"refused", "dns"} -> "requests.ConnectionError"
      [] remote.net = "timeout" -> "requests.Timeout"
      [] OTHER -> "none"

\* A status check that lets client errors through.
raise_for_status_server_only(status) ==
    IF status >= 500 /\ status < 600 THEN "requests.HTTPError" ELSE "none"

\* Line 121: raise_for_status raises HTTPError for 400 <= status < 600.
raise_for_status(status) == IF status >= 400 /\ status < 600 THEN "requests.HTTPError" ELSE "none"

\* Line 126: except requests.exceptions.RequestException.  ConnectionError,
\* Timeout and HTTPError derive from it; what response.json() raises derives
\* from it in the builds where jsonErrorBase says so (requests >= 2.27
\* raises requests.exceptions.JSONDecodeError, an InvalidJSONError; older
\* builds raise a plain ValueError).
CaughtAsRequestException(exc, base) ==
    \/ exc \in {"requests.ConnectionError", "requests.Timeout", "requests.HTTPError"}
    \/ exc = "JSONDecodeError" /\ base = "RequestException"

\* Lines 118-124: the exception the try block ends with, "none" on return.
TryException(remote) ==
    IF PostException(remote) # "none" THEN PostException(remote)
    ELSE IF raise_for_status(remote.status) # "none" THEN raise_for_status(remote.status)
    ELSE IF ~JsonDecode(remote.text).ok THEN "JSONDecodeError"
    ELSE "none"

\* Lines 118-137: the handler's answer once the call was made.
PredictAnswer(remote, base) ==
    LET exc == TryException(remote) IN
    IF exc = "none"
      THEN [http |-> 200, fault |-> "none", detail |-> <<>>, body |-> JsonDecode(remote.text).doc]
    ELSE IF CaughtAsRequestException(exc, base)
      THEN [http |-> 503, fault |-> "HTTPException",
            detail |-> <<"Inference service is unavailable: ", exc>>, body |-> <<>>]
      ELSE [http |-> 500, fault |-> "HTTPException",
            detail |-> <<"An error occurred during prediction: ", exc>>, body |-> <<>>]

\* A POST /predict request reaches the process.
PredictArrive ==
    /\ boot = "serving"
    /\ predReq.pc = "idle"
    /\ \E p \in Payloads : predReq' = [IdlePred EXCEPT !.pc = "arrived", !.payload = p]
    /\ UNCHANGED <<startupVars, jsonErrorBase, store, lastReturned, collection, peer,
                   healthResp, cacheReq, vecReq>>

\* Lines 104-137 with the body validation FastAPI runs first.
Predict ==
    /\ boot = "serving"
    /\ predReq.pc = "arrived"
    /\ IF ValidationFails(predReq.payload)
         THEN predReq' = [predReq EXCEPT !.pc = "done", !.http = 422,
                                         !.fault = "RequestValidationError",
                                         !.detail = <<"expected features: ", FeatureCount>>]
         ELSE \E remote \in Remotes :
                LET sent == [json |-> mlflow_input(predReq.payload),
                             timeout |-> InferenceTimeout]
                    ans == PredictAnswer(remote, jsonErrorBase) IN
                predReq' = [predReq EXCEPT !.pc = "done", !.remote = remote,
                                           !.outbound = Append(@, sent),
                                           !.http = ans.http, !.fault = ans.fault,
                                           !.detail = ans.detail, !.body = ans.body]
    /\ UNCHANGED <<startupVars, jsonErrorBase, store, lastReturned, collection, peer,
                   healthResp, cacheReq, vecReq>>

\* The answer is sent; nothing of the request is kept.
PredictReply ==
    /\ predReq.pc = "done"
    /\ predReq' = IdlePred
    /\ UNCHANGED <<startupVars, jsonErrorBase, store, lastReturned, collection, peer,
                   healthResp, cacheReq, vecReq>>

NextPredict == Startup \/ Restart \/ PredictArrive \/ Predict \/ PredictReply

SpecPredict == Init /\ [][NextPredict]_vars

\* ---------------------------------------------------------------- /health

\* A returned dict is sent with the route's default status code.
DefaultStatusCode == 200

PingOutcomes == RedisOutcomes \cup {"not_pong"}

\* Lines 60-63.
health_services(rc, qc, pong) ==
    [redis |-> IF rc = "present" /\ pong THEN "ok" ELSE "error",
     qdrant |-> IF qc = "present" THEN "ok" ELSE "error"]

\* Line 64.
health_status_code(services) ==
    IF services.redis = "ok" /\ services.qdrant = "ok" THEN 200 ELSE 503

\* Line 65: the returned dict; status_code is used for its "status" field only.
health_body(services) ==
    [status |-> IF health_status_code(services) = 200 THEN "ok" ELSE "error",
     services |-> services]

\* Lines 57-65.  ping() is called only with a handle; what it raises is not
\* caught, and the framework answers 500.
HealthCheck ==
    /\ boot = "serving"
    /\ \E out \in PingOutcomes :
         LET called == redis_client = "present"
             exc == IF called /\ out # "not_pong" THEN RedisException(out) ELSE "none"
             body == health_body(health_services(redis_client, qdrant_client, out = "ok"))
         IN
         healthResp' =
           IF exc # "none"
             THEN [NoHealth EXCEPT !.http = 500, !.fault = "unhandled",
                                   !.ping = out, !.rc = redis_client, !.qc = qdrant_client,
                                   !.cacheOps = 1]
             ELSE [http |-> DefaultStatusCode, fault |-> "none", status |-> body.status,
                   redis |-> body.services.redis, qdrant |-> body.services.qdrant,
                   ping |-> IF called THEN out ELSE "not_called",
                   rc |-> redis_client, qc |-> qdrant_client,
                   cacheOps |-> IF called THEN 1 ELSE 0]
    /\ UNCHANGED <<startupVars, jsonErrorBase, store, lastReturned, collection, peer,
                   cacheReq, vecReq, predReq>>

NextHealth == Startup \/ Restart \/ HealthCheck

SpecHealth == Init /\ [][NextHealth]_vars

\* --------------------------------------------------------- /cache-example

\* Line 77.
new_value(n) == "random_value_" \o ToString(n)

\* Line 74: the truth value of what get returned.
Truthy(v) == v # None /\ v # ""

\* A GET /cache-example request reaches the process; obs is what the latest
\* completed call returned, if the entry has not expired since.
CacheArrive(w) ==
    /\ boot = "serving"
    /\ cacheReq[w].pc = "idle"
    /\ cacheReq' = [cacheReq EXCEPT ![w] = [IdleCache EXCEPT !.pc = "arrived",
                                                             !.obs = lastReturned]]
    /\ UNCHANGED <<startupVars, jsonErrorBase, store, lastReturned, collection, peer,
                   healthResp, vecReq, predReq>>

\* Lines 70-77: the handle check, get("my_key"), and on a miss the new value.
CacheGet(w) ==
    /\ boot = "serving"
    /\ cacheReq[w].pc = "arrived"
    /\ IF redis_client # "present"
         THEN cacheReq' = [cacheReq EXCEPT ![w].pc = "done", ![w].http = 503,
                                           ![w].fault = "HTTPException",
                                           ![w].rc = redis_client]
         ELSE \E out \in RedisOutcomes :
                IF RedisException(out) # "none"
                  THEN cacheReq' = [cacheReq EXCEPT ![w].pc = "done", ![w].http = 500,
                                                    ![w].fault = "unhandled",
                                                    ![w].failed = out, ![w].cacheOps = 1,
                                                    ![w].rc = redis_client]
                  ELSE IF Truthy(store.val)
                    THEN cacheReq' = [cacheReq EXCEPT ![w].pc = "done",
                                                      ![w].http = DefaultStatusCode,
                                                      ![w].source = "cache",
                                                      ![w].value = store.val,
                                                      ![w].cacheOps = 1,
                                                      ![w].rc = redis_client]
                    ELSE \E n \in 1..MaxRand :
                           cacheReq' = [cacheReq EXCEPT ![w].pc = "set",
                                                        ![w].newVal = new_value(n),
                                                        ![w].cacheOps = 1,
                                                        ![w].rc = redis_client]
    /\ UNCHANGED <<startupVars, jsonErrorBase, store, lastReturned, collection, peer,
                   healthResp, vecReq, predReq>>

\* Lines 78-79: set("my_key", new_value, ex=10) replaces the entry and
\* restarts its time to live.
CacheSet(w) ==
    /\ boot = "serving"
    /\ cacheReq[w].pc = "set"
    /\ \E out \in RedisOutcomes :
         IF RedisException(out) # "none"
           THEN /\ cacheReq' = [cacheReq EXCEPT ![w].pc = "done", ![w].http = 500,
                                                ![w].fault = "unhandled",
                                                ![w].failed = out, ![w].cacheOps = 2]
                /\ UNCHANGED store
           ELSE /\ store' = [val |-> cacheReq[w].newVal, ttl |-> CacheTtl]
                /\ cacheReq' = [cacheReq EXCEPT ![w].pc = "done",
                                                ![w].http = DefaultStatusCode,
                                                ![w].source = "generated",
                                                ![w].value = cacheReq[w].newVal,
                                                ![w].cacheOps = 2]
    /\ UNCHANGED <<startupVars, jsonErrorBase, lastReturned, collection, peer,
                   healthResp, vecReq, predReq>>

\* The answer is sent: the call has returned.
CacheReply(w) ==
    /\ cacheReq[w].pc = "done"
    /\ lastReturned' = IF cacheReq[w].http = 200 THEN cacheReq[w].value ELSE lastReturned
    /\ cacheReq' = [cacheReq EXCEPT ![w] = IdleCache]
    /\ UNCHANGED <<startupVars, jsonErrorBase, store, collection, peer,
                   healthResp, vecReq, predReq>>

\* One second passes at the cache server; at 0 the entry is gone, and with it
\* what earlier calls are known to have returned from it.
Tick ==
    /\ store.val # None
    /\ IF store.ttl > 1
         THEN /\ store' = [store EXCEPT !.ttl = @ - 1]
              /\ UNCHANGED <<lastReturned, cacheReq>>
         ELSE /\ store' = NoEntry
              /\ lastReturned' = None
              /\ cacheReq' = [w \in 1..MaxWorkers |-> [cacheReq[w] EXCEPT !.obs = None]]
    /\ UNCHANGED <<startupVars, jsonErrorBase, collection, peer, healthResp, vecReq, predReq>>

NextCache ==
    \/ Startup
    \/ Restart
    \/ Tick
    \/ \E w \in 1..MaxWorkers : CacheArrive(w) \/ CacheGet(w) \/ CacheSet(w) \/ CacheReply(w)

SpecCache == Init /\ [][NextCache]_vars

\* -------------------------------------------------------- /vector-example

RECURSIVE DotUpTo(_, _, _)
DotUpTo(a, b, n) == IF n = 0 THEN 0 ELSE a[n] * b[n] + DotUpTo(a, b, n - 1)

\* Distance.DOT (line 47): the score of a stored point is its dot product
\* with the query.
Dot(a, b) == DotUpTo(a, b, VectorSize)

Stored(c) == {i \in Ids : c.points[i] # NoVec}

Min(a, b) == IF a < b THEN a ELSE b

\* search(query_vector, limit): the limit best-scoring points, best first;
\* among points of equal score the store may return any.
SearchResults(c, q, limit) ==
    LET ids == Stored(c)
        k == Min(limit, Cardinality(ids))
        score(i) == Dot(c.points[i], q)
        ranked == {s \in [1..k -> ids] :
                     /\ \A i, j \in 1..k : i < j => s[i] # s[j] /\ score(s[i]) >= score(s[j])
                     /\ \A x \in ids : (\A i \in 1..k : s[i] # x)
                                          => \A i \in 1..k : score(s[i]) >= score(x)}
    IN {[i \in 1..k |-> [id |-> s[i], score |-> score(s[i])]] : s \in ranked}

\* upsert(points=[PointStruct(id, vector)], wait=True): inserts or replaces.
Upsert(c, id, vec) == [c EXCEPT !.points[id] = vec]

\* A call on a collection that does not exist is answered 404.
CollectionException(out) ==
    IF out = "ok" /\ ~collection.exists THEN "UnexpectedResponse" ELSE QdrantException(out)

\* Lines 84-94: the handle check, the random point and its upsert.
VectorUpsert ==
    /\ boot = "serving"
    /\ vecReq.pc = "idle"
    /\ IF qdrant_client # "present"
         THEN /\ vecReq' = [IdleVec EXCEPT !.pc = "done", !.http = 503,
                                           !.fault = "HTTPException"]
              /\ UNCHANGED collection
         ELSE \E vec_id \in Ids, vec \in Vectors, out \in QdrantOutcomes :
                IF CollectionException(out) # "none"
                  THEN /\ vecReq' = [IdleVec EXCEPT !.pc = "done", !.http = 500,
                                                    !.fault = "unhandled", !.ops = 1]
                       /\ UNCHANGED collection
                  ELSE /\ collection' = Upsert(collection, vec_id, vec)
                       /\ vecReq' = [IdleVec EXCEPT !.pc = "search", !.id = vec_id,
                                                    !.vec = vec, !.ops = 1]
    /\ UNCHANGED <<startupVars, jsonErrorBase, store, lastReturned, peer,
                   healthResp, cacheReq, predReq>>

\* Lines 96-102: the search with the vector just added, limit 1.
VectorSearch ==
    /\ boot = "serving"
    /\ vecReq.pc = "search"
    /\ \E out \in QdrantOutcomes :
         IF CollectionException(out) # "none"
           THEN vecReq' = [vecReq EXCEPT !.pc = "done", !.http = 500,
                                         !.fault = "unhandled", !.ops = 2]
           ELSE \E r \in SearchResults(collection, vecReq.vec, SearchLimit) :
                  vecReq' = [vecReq EXCEPT !.pc = "done", !.http = DefaultStatusCode,
                                           !.found = r, !.ops = 2]
    /\ UNCHANGED <<startupVars, jsonErrorBase, store, lastReturned, collection, peer,
                   healthResp, cacheReq, predReq>>

\* The answer is sent.
VectorReply ==
    /\ vecReq.pc = "done"
    /\ vecReq' = IdleVec
    /\ UNCHANGED <<startupVars, jsonErrorBase, store, lastReturned, collection, peer,
                   healthResp, cacheReq, predReq>>

\* Another instance of this program starts against the same vector store:
\* its recreate_collection drops the collection ...
PeerDelete ==
    /\ peer = "idle"
    /\ peer' = "deleted"
    /\ collection' = DeleteCollection(collection)
    /\ UNCHANGED <<startupVars, jsonErrorBase, store, lastReturned,
                   healthResp, cacheReq, vecReq, predReq>>

\* ... and creates it again, unless it is there already.
PeerCreate ==
    /\ peer = "deleted"
    /\ peer' = "idle"
    /\ collection' = IF collection.exists THEN collection ELSE CreateCollection(collection)
    /\ UNCHANGED <<startupVars, jsonErrorBase, store, lastReturned,
                   healthResp, cacheReq, vecReq, predReq>>

NextVector == Startup \/ Restart \/ VectorUpsert \/ VectorSearch \/ VectorReply

SpecVector == Init /\ [][NextVector]_vars

NextFleet == NextVector \/ PeerDelete \/ PeerCreate

SpecFleet == Init /\ [][NextFleet]_vars

\* ------------------------------------------------------ claims on /predict

AllRowsValid(payload) == \A i \in 1..Len(payload) : Len(payload[i]) = 10

ExpectedColumns ==
    <<"feature_0", "feature_1", "feature_2", "feature_3", "feature_4",
      "feature_5", "feature_6", "feature_7", "feature_8", "feature_9">>

\* C1: a payload with at least one row whose length is not 10, wherever the
\* row sits, is answered 422 (a validation error) and no outbound call to the
\* inference service is made for it.
C1_InvalidRowRejectedBeforeAnyCall ==
    (predReq.pc = "done" /\ ~AllRowsValid(predReq.payload))
      => /\ predReq.http = 422
         /\ predReq.fault = "RequestValidationError"
         /\ Len(predReq.outbound) = 0

\* C1 witness: a two-row payload whose first row is valid and whose second
\* is one short has been answered.
C1_Witness ==
    /\ predReq.pc = "done"
    /\ Len(predReq.payload) = 2
    /\ Len(predReq.payload[1]) = 10
    /\ Len(predReq.payload[2]) = 9
    /\ predReq.http = 422

\* C2: a payload whose rows all have 10 elements (zero rows included) causes
\* exactly one outbound call, whose body is {dataframe_split: {columns, data}}
\* with columns feature_0..feature_9 in order and data the input rows,
\* unchanged and in the same order.
C2_ValidPayloadForwardedOnce ==
    (predReq.pc = "done" /\ AllRowsValid(predReq.payload))
      => /\ Len(predReq.outbound) = 1
         /\ DOMAIN predReq.outbound[1].json = {"dataframe_split"}
         /\ DOMAIN predReq.outbound[1].json.dataframe_split = {"columns", "data"}
         /\ predReq.outbound[1].json.dataframe_split.columns = ExpectedColumns
         /\ predReq.outbound[1].json.dataframe_split.data = predReq.payload

\* C2 witness: two different valid rows went out in one call.
C2_Witness ==
    /\ predReq.pc = "done"
    /\ Len(predReq.payload) = 2
    /\ AllRowsValid(predReq.payload)
    /\ predReq.payload[1] # predReq.payload[2]
    /\ Len(predReq.outbound) = 1

RemoteFailed(remote) ==
    \/ remote.net \in {"refused", "timeout", "dns"}
    \/ remote.net = "answered" /\ remote.status >= 400 /\ remote.status <= 599

\* C3: when the one outbound call fails at the network level or comes back
\* with a 4xx/5xx status, the answer is 503, raised as an HTTPException whose
\* message carries the cause; it is not 500 and relays no remote body.
C3_RemoteFailureIs503 ==
    (predReq.pc = "done" /\ Len(predReq.outbound) = 1 /\ RemoteFailed(predReq.remote))
      => /\ predReq.http = 503
         /\ predReq.fault = "HTTPException"
         /\ predReq.detail[1] = "Inference service is unavailable: "
         /\ predReq.detail[2] \in {"requests.ConnectionError", "requests.Timeout",
                                   "requests.HTTPError"}
         /\ predReq.body = <<>>

\* C3 witness: the remote answered 404 with a decodable body and the caller
\* got 503.
C3_Witness ==
    /\ predReq.pc = "done"
    /\ predReq.remote.net = "answered"
    /\ predReq.remote.status = 404
    /\ predReq.remote.text = "{\"predictions\": [1]}"
    /\ predReq.http = 503

\* C4: when the outbound call returns a success status, an undecodable body
\* is answered 500 with the cause (not 503), and a decodable body is returned
\* as decoded with status 200.
C4_MalformedBodyIs500 ==
    (/\ predReq.pc = "done"
     /\ Len(predReq.outbound) = 1
     /\ predReq.remote.net = "answered"
     /\ predReq.remote.status = 200)
      => IF predReq.remote.text \in {"{\"predictions\": [0]}", "{\"predictions\": [1]}"}
           THEN /\ predReq.http = 200
                /\ predReq.body = <<"predictions",
                                    IF predReq.remote.text = "{\"predictions\": [0]}"
                                      THEN <<0>> ELSE <<1>>>>
           ELSE /\ predReq.http = 500
                /\ predReq.detail[1] = "An error occurred during prediction: "

\* ----------------------------------------- claims on /health, /cache-example

\* C5: whenever the cache handle is absent or its ping is not true, or the
\* vector handle is absent, GET /health answers with HTTP status 503 and a
\* body whose status field is "error".
C5_UnhealthyIs503 ==
    (/\ healthResp.http # 0
     /\ \/ healthResp.rc # "present"
        \/ healthResp.ping # "ok"
        \/ healthResp.qc # "present")
      => healthResp.http = 503 /\ healthResp.status = "error"

\* C6: if a /cache-example call returned v, and a second call started after
\* that return with the entry not expired since, the second call answers
\* source=cache with the same value v (here: for every second call that is
\* answered 200).
C6_SecondCallSameValue ==
    \A w \in 1..MaxWorkers :
      (cacheReq[w].pc = "done" /\ cacheReq[w].http = 200 /\ cacheReq[w].obs # None)
        => cacheReq[w].source = "cache" /\ cacheReq[w].value = cacheReq[w].obs

\* C8: whenever the cache cannot serve (no handle, or a cache operation
\* raised), /cache-example and /health end with a 503 raised by the handler
\* (for /health with redis reported "error"), never with an unhandled fault;
\* with no handle, no cache operation is attempted.
C8_CacheUnavailableIs503 ==
    /\ \A w \in 1..MaxWorkers :
         (cacheReq[w].pc = "done"
            /\ (cacheReq[w].rc # "present" \/ cacheReq[w].failed # "none"))
           => /\ cacheReq[w].http = 503
              /\ cacheReq[w].fault = "HTTPException"
              /\ (cacheReq[w].rc # "present" => cacheReq[w].cacheOps = 0)
    /\ (healthResp.http # 0
          /\ (healthResp.rc # "present"
                \/ healthResp.ping \in {"refused", "timeout", "error_reply"}))
         => /\ healthResp.http = 503
            /\ healthResp.redis = "error"
            /\ (healthResp.rc # "present" => healthResp.cacheOps = 0)

\* ------------------------------------- claims on startup, /vector-example

\* C7: every /vector-example call that completes got exactly one search
\* result, and it is the point the call inserted (conceding ties: or a point
\* that scores exactly as the inserted one scores against itself).
C7_SearchReturnsInsertedPoint ==
    (vecReq.pc = "done" /\ vecReq.http = 200)
      => /\ Len(vecReq.found) = 1
         /\ \/ vecReq.found[1].id = vecReq.id
            \/ vecReq.found[1].score = Dot(vecReq.vec, vecReq.vec)

\* C9: startup always completes: a failed first round trip to the cache or to
\* the vector store, of whatever kind, disables that handle and nothing else.
C9_StartupAlwaysCompletes ==
    /\ boot # "aborted"
    /\ boot = "serving"
         => /\ redis_client = (IF bootLog.redis = "ok" THEN "present" ELSE "absent")
            /\ (bootLog.qdrant = "unreachable" => qdrant_client = "absent")

Preserved(before, after) ==
    \A i \in Ids : before.points[i] # NoVec => after.points[i] = before.points[i]

\* C10: a bootstrap that finds my_collection existing and a reachable store
\* ends with the vector handle enabled and every point stored before the
\* start still in the collection.
C10_BootstrapKeepsCollection ==
    [][(/\ boot = "qdrant_create"
        /\ boot' = "serving"
        /\ atBoot.exists
        /\ bootLog'.qdrant = "ok")
         => qdrant_client' = "present" /\ Preserved(atBoot, collection')]_vars

=============================================================================
